---- MODULE Spec2Model ----
(***************************************************************************)
(* Model of dapps/meta-tracer/api/app.py: the FastAPI front-end of the     *)
(* metadata registry.  The handlers create / update / get_one run in the   *)
(* server's thread pool (they are plain `def` endpoints), so each handler  *)
(* is cut at its calls to the shared world: the contract read, the file    *)
(* write, the nonce fetch, the raw-transaction send and the receipt wait.  *)
(* The ledger node and the MetadataRegistry contract are not part of       *)
(* app.py; they are modelled from the specification (sections 4.3, 5, 6).  *)
(***************************************************************************)
EXTENDS Integers, Sequences, FiniteSets, TLC

\* ------------------------------------------------------------------ bounds
\* worker threads serving requests at the same time
NumThreads == 2
\* requests accepted over a whole run
MaxReqs == 3

\* ------------------------------------------------------- program constants
\* _b32: `if len(raw) != 32`
IdBytes == 32
\* PUBLIC_BASE_URL = os.getenv("PUBLIC_BASE_URL", "")
PUBLIC_BASE_URL == ""
\* "0x0000000000000000000000000000000000000000"
ZeroAddress == "0x0000000000000000000000000000000000000000"
\* acct.address, the single signing account
AcctAddress == "0xAcct"

Threads == 1..NumThreads

\* Optional[str]: None is the empty tuple, a value v is <<v>>
None == <<>>
Some(v) == <<v>>
IsNone(o) == o = <<>>
Val(o) == o[1]

\* ------------------------------------------------------------- hex strings
\* A str holding an id is a sequence of one-character strings.
LowerHex == <<"0","1","2","3","4","5","6","7","8","9","a","b","c","d","e","f">>
UpperHex == <<"0","1","2","3","4","5","6","7","8","9","A","B","C","D","E","F">>

Rep(c, n) == [i \in 1..n |-> c]

IsHexChar(c) == \E i \in 1..16 : LowerHex[i] = c \/ UpperHex[i] = c

HexVal(c) == (CHOOSE i \in 1..16 : LowerHex[i] = c \/ UpperHex[i] = c) - 1

\* str.lower() on the characters that occur in ids
LowerChar(c) == IF \E i \in 11..16 : UpperHex[i] = c
                THEN LowerHex[CHOOSE i \in 11..16 : UpperHex[i] = c]
                ELSE IF c = "X" THEN "x" ELSE IF c = "G" THEN "g" ELSE c

Lower(s) == [i \in 1..Len(s) |-> LowerChar(s[i])]

\* hexstr.startswith("0x")
StartsWith0x(s) == Len(s) >= 2 /\ s[1] = "0" /\ s[2] = "x"

\* hexstr[2:] if hexstr.startswith("0x") else hexstr
Strip0x(s) == IF StartsWith0x(s) THEN SubSeq(s, 3, Len(s)) ELSE s

\* binascii.unhexlify: raises on odd length or a non-hex digit
UnhexOk(s) == Len(s) % 2 = 0 /\ \A i \in 1..Len(s) : IsHexChar(s[i])

Unhexlify(s) == [i \in 1..(Len(s) \div 2) |-> 16 * HexVal(s[2*i - 1]) + HexVal(s[2*i])]

\* _b32 raises (binascii.Error or ValueError) exactly when this is FALSE
B32Ok(hexstr) ==
    LET s == Strip0x(hexstr)
    IN  UnhexOk(s) /\ Len(Unhexlify(s)) = IdBytes

\* _b32's return value, defined when B32Ok
B32(hexstr) == Unhexlify(Strip0x(hexstr))

\* Web3.to_hex(bytes): "0x" and two lower-case digits per byte
ToHex(raw) ==
    <<"0", "x">> \o [i \in 1..(2 * Len(raw)) |->
                       IF i % 2 = 1 THEN LowerHex[(raw[(i + 1) \div 2] \div 16) + 1]
                                    ELSE LowerHex[(raw[i \div 2] % 16) + 1]]

\* ------------------------------------------------------------------ hashes
\* The seed of Web3.keccak: req.json_text, or str(time.time()); the clock
\* reads a new value at every request, the n-th request reads n.
JsonSeed(text) == [kind |-> "json", text |-> text, n |-> 0]
TimeSeed(n) == [kind |-> "time", text |-> "", n |-> n]

\* Web3.keccak(seed): a 32-byte digest; distinct seeds of the model get
\* distinct digests.
KeccakByte(seed) ==
    IF seed.kind = "time" THEN 208 + seed.n
    ELSE IF seed.text = "j1" THEN 193 ELSE 194

Keccak(seed) == [i \in 1..32 |-> KeccakByte(seed)]

\* hashlib.sha256(data).hexdigest(), carried to the chain by Web3.to_bytes:
\* the digest is named after the text it digests.
Sha256Hex(text) == <<"sha256", text>>

\* "0" * 64
ZeroHash == <<"zero", "">>

\* ------------------------------------------------------------ object store
\* OBJECTS_DIR / rid_hex / f"v{n}.json"
DecStr(n) == IF n < 10 THEN <<LowerHex[n + 1]>>
             ELSE <<LowerHex[(n \div 10) + 1], LowerHex[(n % 10) + 1]>>

TargetPath(rid_hex, ver) == rid_hex \o <<"/v">> \o DecStr(ver) \o <<".json">>

\* f"{PUBLIC_BASE_URL}/objects/{rid_hex}/v{n}.json" if PUBLIC_BASE_URL else
\* f"/objects/{rid_hex}/v{n}.json"
Locator(rid_hex, ver) ==
    IF PUBLIC_BASE_URL # ""
    THEN <<PUBLIC_BASE_URL, "/objects/">> \o TargetPath(rid_hex, ver)
    ELSE <<"/objects/">> \o TargetPath(rid_hex, ver)

\* ------------------------------------------------------------- the contract
\* MetadataRegistry.get of an id that was never created: every field zero
EmptyRecord ==
    [contentHash |-> ZeroHash, uri |-> <<>>, version |-> 0, owner |-> ZeroAddress,
     createdAt |-> 0, updatedAt |-> 0, updatedBy |-> ZeroAddress]

\* get(bytes32 id) on contract storage c
ContractGet(c, rid) == IF rid \in DOMAIN c THEN c[rid] ELSE EmptyRecord

\* create(id, contentHash, uri) runs to completion only for a fresh id
CreateReverts(c, tx) == ContractGet(c, tx.rid).owner # ZeroAddress

ContractCreate(tx, ts) ==
    [contentHash |-> tx.contentHash, uri |-> tx.uri, version |-> 1, owner |-> tx.from,
     createdAt |-> ts, updatedAt |-> ts, updatedBy |-> tx.from]

\* update(id, contentHash, uri) needs the record to exist
UpdateReverts(c, tx) == ContractGet(c, tx.rid).owner = ZeroAddress

\* mutant: update that stores the new content but leaves the version alone
ContractUpdateKeepsVersion(old, tx, ts) ==
    [old EXCEPT !.contentHash = tx.contentHash, !.uri = tx.uri,
                !.updatedAt = ts, !.updatedBy = tx.from]

ContractUpdate(old, tx, ts) ==
    [old EXCEPT !.contentHash = tx.contentHash, !.uri = tx.uri,
                !.version = old.version + 1, !.updatedAt = ts, !.updatedBy = tx.from]

Reverts(c, tx) == IF tx.fn = "create" THEN CreateReverts(c, tx) ELSE UpdateReverts(c, tx)

\* contract storage after a transaction that did not revert
Execute(c, tx, ts) ==
    IF tx.fn = "create"
    THEN [r \in DOMAIN c \cup {tx.rid} |-> IF r = tx.rid THEN ContractCreate(tx, ts) ELSE c[r]]
    ELSE [c EXCEPT ![tx.rid] = ContractUpdate(c[tx.rid], tx, ts)]

\* ------------------------------------------------------------------- state
VARIABLES
    req,      \* per worker thread: the request it serves and the handler's locals
    objects,  \* OBJECTS_DIR: path -> [data, writes]
    pool,     \* the node's pending transactions of the account
    mined,    \* the account's included transactions, in nonce order, with receipts
    chain,    \* the contract's storage: recordId -> record
    started   \* requests accepted so far

vars == <<req, objects, pool, mined, chain, started>>

Idle ==
    [kind |-> "none", pc |-> "idle", recordIdHex |-> None, json_text |-> None,
     uri |-> None, rid |-> <<>>, it |-> None, rid_hex |-> <<>>, ver |-> 0,
     ch_hex |-> ZeroHash,
     outUri |-> <<>>, wrote |-> FALSE, wfail |-> FALSE, tx |-> None, sent |-> FALSE,
     created |-> None, status |-> 0, body |-> None]

Init ==
    /\ req = [t \in Threads |-> Idle]
    /\ objects = <<>>
    /\ pool = {}
    /\ mined = <<>>
    /\ chain = <<>>
    /\ started = 0

\* Python truthiness of an Optional[str]: None and "" are falsy
\* (json_text and uri hold whole texts, recordIdHex a character sequence)
Truthy(o) == ~IsNone(o) /\ Val(o) # ""
TruthyId(o) == ~IsNone(o) /\ Val(o) # <<>>

\* raise HTTPException(code, ...) / an uncaught exception (500) / return body
Fail(r, code) == [r EXCEPT !.pc = "done", !.status = code]
Return(r, b) == [r EXCEPT !.pc = "done", !.status = 200, !.body = Some(b)]

\* ------------------------------------------------------------ the handlers
\* request inputs of the model
IdLower0x == <<"0", "x">> \o Rep("a", 64)
IdUpper == Rep("A", 64)
IdShort == <<"0", "x">> \o Rep("a", 62)
IdNonHex == Rep("g", 64)
\* recordIdHex of a POST body (optional) and of a PUT or GET path
CreateIds == {None, Some(IdLower0x), Some(IdNonHex)}
PathIds == {IdLower0x, IdUpper, IdShort}
\* {json_text, uri} of a body: neither (absent or empty), uri alone,
\* json_text alone, both
Bodies ==
    {[json_text |-> None, uri |-> None], [json_text |-> Some(""), uri |-> None],
     [json_text |-> None, uri |-> Some("u1")],
     [json_text |-> Some("j1"), uri |-> None], [json_text |-> Some("j2"), uri |-> None],
     [json_text |-> Some("j1"), uri |-> Some("u1")]}

NewRequest(kind, idHex, json, uri) ==
    [Idle EXCEPT !.kind = kind, !.recordIdHex = idHex, !.json_text = json, !.uri = uri]

\* mutant: the two branches in the other order, uri before json_text
CreateResolveUriFirst(r, rid) ==
    IF Truthy(r.uri)
    THEN [r EXCEPT !.rid = rid, !.ch_hex = ZeroHash, !.outUri = <<Val(r.uri)>>,
                   !.pc = "build"]
    ELSE IF Truthy(r.json_text)
    THEN [r EXCEPT !.rid = rid, !.ch_hex = Sha256Hex(Val(r.json_text)),
                   !.rid_hex = Strip0x(ToHex(rid)), !.ver = 1, !.pc = "write"]
    ELSE Fail([r EXCEPT !.rid = rid], 400)

\* create, "contentHash & uri": the branch taken once rid is known
CreateResolve(r, rid) ==
    IF Truthy(r.json_text)
    THEN [r EXCEPT !.rid = rid, !.ch_hex = Sha256Hex(Val(r.json_text)),
                   !.rid_hex = Strip0x(ToHex(rid)), !.ver = 1, !.pc = "write"]
    ELSE IF Truthy(r.uri)
    THEN [r EXCEPT !.rid = rid, !.ch_hex = ZeroHash, !.outUri = <<Val(r.uri)>>,
                   !.pc = "build"]
    ELSE Fail([r EXCEPT !.rid = rid], 400)

\* create up to its first effect: the recordId, then contentHash & uri
CreateBegin(r, now) ==
    IF TruthyId(r.recordIdHex)
    THEN IF B32Ok(Val(r.recordIdHex))
         THEN CreateResolve(r, B32(Val(r.recordIdHex)))
         ELSE Fail(r, 400)
    ELSE CreateResolve(r, Keccak(IF Truthy(r.json_text) THEN JsonSeed(Val(r.json_text))
                                 ELSE TimeSeed(now)))

\* mutant: no final else, a body with neither goes on with the zero hash
UpdateResolveNoElse(r, rid, it) ==
    IF Truthy(r.json_text)
    THEN [r EXCEPT !.rid = rid, !.it = Some(it), !.ch_hex = Sha256Hex(Val(r.json_text)),
                   !.rid_hex = Strip0x(Val(r.recordIdHex)), !.ver = it.version + 1,
                   !.pc = "write"]
    ELSE [r EXCEPT !.rid = rid, !.it = Some(it), !.ch_hex = ZeroHash,
                   !.outUri = IF IsNone(r.uri) THEN <<>> ELSE <<Val(r.uri)>>,
                   !.pc = "build"]

\* update, "new contentHash/URI": the branch taken once the record is read
UpdateResolve(r, rid, it) ==
    IF Truthy(r.json_text)
    THEN [r EXCEPT !.rid = rid, !.it = Some(it), !.ch_hex = Sha256Hex(Val(r.json_text)),
                   !.rid_hex = Strip0x(Val(r.recordIdHex)), !.ver = it.version + 1,
                   !.pc = "write"]
    ELSE IF Truthy(r.uri)
    THEN [r EXCEPT !.rid = rid, !.it = Some(it), !.ch_hex = ZeroHash,
                   !.outUri = <<Val(r.uri)>>, !.pc = "build"]
    ELSE Fail([r EXCEPT !.rid = rid, !.it = Some(it)], 400)

\* mutant: the owner compared with the short form of the zero address
NotFoundShortZero(it) == it.owner = "0x0"

\* the 404 of update and get_one
NotFound(it) == it.owner = ZeroAddress

\* update up to its first effect: _b32, CT.functions.get(rid).call(), the branch
UpdateBegin(r, c) ==
    IF ~B32Ok(Val(r.recordIdHex))
    THEN Fail(r, 400)
    ELSE LET rid == B32(Val(r.recordIdHex))
             it == ContractGet(c, rid)
         IN  IF NotFound(it)
             THEN Fail([r EXCEPT !.rid = rid, !.it = Some(it)], 404)
             ELSE UpdateResolve(r, rid, it)

\* Web3.to_hex of a bytes32 hash
HashToHex(h) == <<"0x">> \o h

\* mutant: createdAt taken from it[5], the field next to it
GetOneCreatedAtFromUpdated(r, c) ==
    IF ~B32Ok(Val(r.recordIdHex))
    THEN Fail(r, 400)
    ELSE LET rid == B32(Val(r.recordIdHex))
             it == ContractGet(c, rid)
         IN  IF NotFound(it)
             THEN Fail([r EXCEPT !.rid = rid, !.it = Some(it)], 404)
             ELSE Return([r EXCEPT !.rid = rid, !.it = Some(it)],
                         [recordId |-> Lower(Val(r.recordIdHex)),
                          contentHash |-> HashToHex(it.contentHash),
                          uri |-> it.uri, version |-> it.version, owner |-> it.owner,
                          createdAt |-> it.updatedAt, updatedAt |-> it.updatedAt,
                          updatedBy |-> it.updatedBy])

\* get_one, whole
GetOne(r, c) ==
    IF ~B32Ok(Val(r.recordIdHex))
    THEN Fail(r, 400)
    ELSE LET rid == B32(Val(r.recordIdHex))
             it == ContractGet(c, rid)
         IN  IF NotFound(it)
             THEN Fail([r EXCEPT !.rid = rid, !.it = Some(it)], 404)
             ELSE Return([r EXCEPT !.rid = rid, !.it = Some(it)],
                         [recordId |-> Lower(Val(r.recordIdHex)),
                          contentHash |-> HashToHex(it.contentHash),
                          uri |-> it.uri, version |-> it.version, owner |-> it.owner,
                          createdAt |-> it.createdAt, updatedAt |-> it.updatedAt,
                          updatedBy |-> it.updatedBy])

\* ------------------------------------------------------------ list_metadata
\* get_all_entries() of the MetadataCreated / MetadataUpdated filters from
\* block 0: one entry per transaction that did not revert, in block order
CreatedArgs(e) ==
    [recordId |-> e.tx.rid, contentHash |-> e.tx.contentHash, uri |-> e.tx.uri,
     version |-> e.version, owner |-> e.tx.from, timestamp |-> e.timestamp]
UpdatedArgs(e) ==
    [recordId |-> e.tx.rid, contentHash |-> e.tx.contentHash, uri |-> e.tx.uri,
     version |-> e.version, updatedBy |-> e.tx.from, timestamp |-> e.timestamp]

RECURSIVE LogsOf(_, _)
LogsOf(m, fn) ==
    IF m = <<>> THEN <<>>
    ELSE LET e == m[1]
         IN  (IF e.status = 1 /\ e.tx.fn = fn
              THEN <<IF fn = "create" THEN CreatedArgs(e) ELSE UpdatedArgs(e)>>
              ELSE <<>>) \o LogsOf(Tail(m), fn)

CreatedLogs(m) == LogsOf(m, "create")
UpdatedLogs(m) == LogsOf(m, "update")

\* bytes.hex() of a recordId: lower-case digits, no "0x"
BytesHex(raw) == SubSeq(ToHex(raw), 3, 2 * Len(raw) + 2)
\* bytes.hex() of a contentHash: the digest's digits, no "0x"
HashHex(h) == h

\* items, a dict: its keys in insertion order, each with its value
HasKey(items, rid) == \E i \in 1..Len(items) : items[i].key = rid
IndexOf(items, rid) == CHOOSE i \in 1..Len(items) : items[i].key = rid
GetItem(items, rid) == items[IndexOf(items, rid)].val
\* items[rid] = v: a new key goes last, an old key keeps its place
SetItem(items, rid, v) ==
    IF HasKey(items, rid)
    THEN [items EXCEPT ![IndexOf(items, rid)] = [key |-> rid, val |-> v]]
    ELSE Append(items, [key |-> rid, val |-> v])
\* d.update(e)
DictUpdate(d, e) ==
    [k \in (DOMAIN d) \cup (DOMAIN e) |-> IF k \in DOMAIN e THEN e[k] ELSE d[k]]

\* the item built from a MetadataCreated entry
CreatedItem(a) ==
    [recordId |-> BytesHex(a.recordId), contentHash |-> HashHex(a.contentHash),
     uri |-> a.uri, version |-> a.version, owner |-> a.owner, updatedBy |-> a.owner,
     updatedAt |-> a.timestamp, createdAt |-> a.timestamp]

\* the fields a MetadataUpdated entry sets
UpdatedFields(a) ==
    [recordId |-> BytesHex(a.recordId), contentHash |-> HashHex(a.contentHash),
     uri |-> a.uri, version |-> a.version, updatedBy |-> a.updatedBy,
     updatedAt |-> a.timestamp]

\* mutant: the update's fields replace the item instead of being merged
UpdatedItemReplaces(old, a) == UpdatedFields(a)

\* items[rid].update({...})
UpdatedItem(old, a) == DictUpdate(old, UpdatedFields(a))

\* for lg in created.get_all_entries(): items[rid] = {...}
RECURSIVE ReplayCreated(_, _)
ReplayCreated(items, logs) ==
    IF logs = <<>> THEN items
    ELSE ReplayCreated(SetItem(items, BytesHex(logs[1].recordId), CreatedItem(logs[1])),
                       Tail(logs))

\* for lg in updated.get_all_entries(): items.setdefault(rid, {}) and update
RECURSIVE ReplayUpdated(_, _)
ReplayUpdated(items, logs) ==
    IF logs = <<>> THEN items
    ELSE LET rid == BytesHex(logs[1].recordId)
             old == IF HasKey(items, rid) THEN GetItem(items, rid) ELSE <<>>
         IN  ReplayUpdated(SetItem(items, rid, UpdatedItem(old, logs[1])), Tail(logs))

\* items.values()
Values(items) == [i \in 1..Len(items) |-> items[i].val]

\* key=lambda x: x.get("updatedAt", 0)
SortKey(x) == IF "updatedAt" \in DOMAIN x THEN x.updatedAt ELSE 0

\* x put into s, which is sorted newest first, behind every item that is not
\* older than it
InsertNewestFirst(s, x) ==
    LET n == Cardinality({i \in 1..Len(s) : SortKey(s[i]) >= SortKey(x)})
    IN  SubSeq(s, 1, n) \o <<x>> \o SubSeq(s, n + 1, Len(s))

RECURSIVE SortedFrom(_, _)
SortedFrom(s, vals) ==
    IF vals = <<>> THEN s ELSE SortedFrom(InsertNewestFirst(s, vals[1]), Tail(vals))

\* mutant: the items in the dict's order
Unsorted(vals) == vals

\* sorted(vals, key=..., reverse=True): stable, newest first
Sorted(vals) == SortedFrom(<<>>, vals)

\* list_metadata, from the two filters' entries to the response body
ListMetadata(created, updated) ==
    [items |-> Sorted(Values(ReplayUpdated(ReplayCreated(<<>>, created), updated)))]

\* target.write_text(req.json_text) went through: uri is built next
AfterWrite(r) ==
    [r EXCEPT !.wrote = TRUE, !.outUri = Locator(r.rid_hex, r.ver), !.pc = "build"]

\* mutant: the error swallowed, the handler goes on to the transaction
AfterWriteErrorSwallowed(r) ==
    [r EXCEPT !.wfail = TRUE, !.outUri = Locator(r.rid_hex, r.ver), !.pc = "build"]

\* mkdir or write_text raised: nothing catches it, the request ends with a 500
AfterWriteError(r) == Fail([r EXCEPT !.wfail = TRUE], 500)

\* the file after write_text(data): created or overwritten; writes counts the
\* write_text calls that completed on the path
WriteText(fs, path, data) ==
    [p \in DOMAIN fs \cup {path} |->
        IF p = path
        THEN [data |-> data, writes |-> IF path \in DOMAIN fs THEN fs[path].writes + 1 ELSE 1]
        ELSE fs[p]]

\* the file after write_text raised once open() had truncated it
Truncate(fs, path) ==
    [p \in DOMAIN fs \cup {path} |->
        IF p = path
        THEN [data |-> "", writes |-> IF path \in DOMAIN fs THEN fs[path].writes ELSE 0]
        ELSE fs[p]]

\* CT.functions.<fn>(rid, contentHash, uri).build_transaction({... nonce ...})
BuildTx(r, nonce) ==
    [fn |-> r.kind, rid |-> r.rid, contentHash |-> r.ch_hex, uri |-> r.outUri,
     from |-> AcctAddress, nonce |-> nonce]

\* w3.eth.get_transaction_count(acct.address): the count at the latest block
TransactionCount(m) == Len(m)

\* the node takes a raw transaction unless its nonce is used up or a pending
\* transaction of the account already holds it (gasPrice 0 outbids nothing)
NodeAccepts(tx, pending, m) ==
    /\ tx.nonce >= Len(m)
    /\ \A p \in pending : p.nonce # tx.nonce

\* the handlers' return value once the receipt rc is in
Response(r, rc) ==
    IF r.kind = "create"
    THEN [txHash |-> rc.tx, recordId |-> ToHex(r.rid), uri |-> r.outUri]
    ELSE [txHash |-> rc.tx, recordId |-> Val(r.recordIdHex), newUri |-> r.outUri]

AfterReceipt(r, rc) == Return(r, Response(r, rc))

\* ----------------------------------------------------------------- actions
\* A handler's return and the delivery of its response are one event for the
\* rest of the server: nothing else moves while a response is going out.
NoneDone == \A t \in Threads : req[t].pc # "done"

\* the thread pool hands a request to a free thread; free threads are
\* interchangeable, so the lowest one takes it
Accepting(t) ==
    /\ NoneDone
    /\ req[t].pc = "idle"
    /\ \A u \in Threads : u < t => req[u].pc # "idle"
    /\ started < MaxReqs

\* POST /api/metadata arrives at thread t; now is what time.time() reads
Create(t, idHex, json, uri, now) ==
    /\ Accepting(t)
    /\ req' = [req EXCEPT ![t] = CreateBegin(NewRequest("create", idHex, json, uri), now)]
    /\ started' = started + 1
    /\ UNCHANGED <<objects, pool, mined, chain>>

\* PUT /api/metadata/{recordIdHex} arrives at thread t
Update(t, idHex, json, uri) ==
    /\ Accepting(t)
    /\ req' = [req EXCEPT ![t] = UpdateBegin(NewRequest("update", Some(idHex), json, uri), chain)]
    /\ started' = started + 1
    /\ UNCHANGED <<objects, pool, mined, chain>>

\* GET /api/metadata/{recordIdHex}, served in one contract call
Read(t, idHex) ==
    /\ Accepting(t)
    /\ req' = [req EXCEPT ![t] = GetOne(NewRequest("read", Some(idHex), None, None), chain)]
    /\ started' = started + 1
    /\ UNCHANGED <<objects, pool, mined, chain>>

\* GET /api/metadata arrives at thread t: the MetadataCreated entries are
\* fetched. A listing writes nothing, so MaxReqs, which bounds what the
\* requests can build up, does not count it.
List(t) ==
    /\ NoneDone
    /\ req[t].pc = "idle"
    /\ \A u \in Threads : u < t => req[u].pc # "idle"
    /\ req' = [req EXCEPT ![t] = [NewRequest("list", None, None, None) EXCEPT
                                     !.pc = "updated",
                                     !.created = Some(CreatedLogs(mined))]]
    /\ UNCHANGED <<objects, pool, mined, chain, started>>

\* the MetadataUpdated entries are fetched; the handler returns
ListUpdated(t) ==
    /\ NoneDone
    /\ req[t].pc = "updated"
    /\ req' = [req EXCEPT ![t] =
                  Return(req[t], ListMetadata(Val(req[t].created), UpdatedLogs(mined)))]
    /\ UNCHANGED <<objects, pool, mined, chain, started>>

\* target.parent.mkdir(...); target.write_text(req.json_text)
WriteObject(t) ==
    /\ NoneDone
    /\ req[t].pc = "write"
    /\ objects' = WriteText(objects, TargetPath(req[t].rid_hex, req[t].ver), Val(req[t].json_text))
    /\ req' = [req EXCEPT ![t] = AfterWrite(req[t])]
    /\ UNCHANGED <<pool, mined, chain, started>>

\* the same two calls raising OSError: before the file is opened, or after
\* open() has truncated it
WriteError(t, truncated) ==
    /\ NoneDone
    /\ req[t].pc = "write"
    /\ objects' = IF truncated
                  THEN Truncate(objects, TargetPath(req[t].rid_hex, req[t].ver))
                  ELSE objects
    /\ req' = [req EXCEPT ![t] = AfterWriteError(req[t])]
    /\ UNCHANGED <<pool, mined, chain, started>>

\* build_transaction with the nonce read from the node, then sign_transaction
Build(t) ==
    /\ NoneDone
    /\ req[t].pc = "build"
    /\ req' = [req EXCEPT ![t] = [req[t] EXCEPT !.tx = Some(BuildTx(req[t], TransactionCount(mined))),
                                                !.pc = "send"]]
    /\ UNCHANGED <<objects, pool, mined, chain, started>>

\* w3.eth.send_raw_transaction(signed.rawTransaction)
Send(t) ==
    /\ NoneDone
    /\ req[t].pc = "send"
    /\ IF NodeAccepts(Val(req[t].tx), pool, mined)
       THEN /\ pool' = pool \cup {Val(req[t].tx)}
            /\ req' = [req EXCEPT ![t] = [req[t] EXCEPT !.sent = TRUE, !.pc = "wait"]]
       ELSE /\ pool' = pool
            /\ req' = [req EXCEPT ![t] = Fail(req[t], 500)]
    /\ UNCHANGED <<objects, mined, chain, started>>

\* the node includes the pending transaction whose nonce is next; the block's
\* timestamp is later than every earlier block's
Mine ==
    \E tx \in pool :
        /\ NoneDone
        /\ tx.nonce = Len(mined)
        /\ LET ts == Len(mined) + 1
               ok == ~Reverts(chain, tx)
               after == IF ok THEN Execute(chain, tx, ts) ELSE chain
           IN  /\ chain' = after
               /\ mined' = Append(mined, [tx |-> tx, status |-> IF ok THEN 1 ELSE 0,
                                          timestamp |-> ts,
                                          version |-> ContractGet(after, tx.rid).version])
        /\ pool' = pool \ {tx}
        /\ UNCHANGED <<req, objects, started>>

\* w3.eth.wait_for_transaction_receipt(...) returns; the handler returns
Receipt(t) ==
    /\ NoneDone
    /\ req[t].pc = "wait"
    /\ Len(mined) > Val(req[t].tx).nonce
    /\ req' = [req EXCEPT ![t] = AfterReceipt(req[t], mined[Val(req[t].tx).nonce + 1])]
    /\ UNCHANGED <<objects, pool, mined, chain, started>>

\* the response has gone out; the thread is free again
Respond(t) ==
    /\ req[t].pc = "done"
    /\ req' = [req EXCEPT ![t] = Idle]
    /\ UNCHANGED <<objects, pool, mined, chain, started>>

\* a request arrives at thread t
Arrive(t) ==
    \/ \E idHex \in CreateIds, b \in Bodies : Create(t, idHex, b.json_text, b.uri, started)
    \/ \E idHex \in PathIds, b \in Bodies : Update(t, idHex, b.json_text, b.uri)
    \/ \E idHex \in PathIds : Read(t, idHex)
    \/ List(t)

\* a handler, or the node, takes its next step
Step ==
    \/ \E t \in Threads : WriteObject(t)
    \/ \E t \in Threads, truncated \in BOOLEAN : WriteError(t, truncated)
    \/ \E t \in Threads : Build(t)
    \/ \E t \in Threads : Send(t)
    \/ Mine
    \/ \E t \in Threads : Receipt(t)
    \/ \E t \in Threads : ListUpdated(t)
    \/ \E t \in Threads : Respond(t)

Next == (\E t \in Threads : Arrive(t)) \/ Step

Spec == Init /\ [][Next]_vars

\* requests processed one at a time: a request is accepted only when no other
\* thread is serving one
Quiet == \A t \in Threads : req[t].pc \in {"idle", "done"}

SeqNext == (Quiet /\ \E t \in Threads : Arrive(t)) \/ Step

SpecSeq == Init /\ [][SeqNext]_vars

\* the same, with more recordIdHex values in the POST body: the empty
\* string and an id one byte short
WideCreateIds == CreateIds \cup {Some(<<>>), Some(IdShort)}

ArriveWide(t) ==
    \/ \E idHex \in WideCreateIds, b \in Bodies : Create(t, idHex, b.json_text, b.uri, started)
    \/ \E idHex \in PathIds \cup {IdNonHex}, b \in Bodies : Update(t, idHex, b.json_text, b.uri)
    \/ \E idHex \in PathIds \cup {IdNonHex} : Read(t, idHex)
    \/ List(t)

WideNext == (Quiet /\ \E t \in Threads : ArriveWide(t)) \/ Step

SpecWide == Init /\ [][WideNext]_vars

\* list_metadata over every event history: up to MaxLogs entries of two
\* records, blocks of MaxTime timestamps (transactions of one block share
\* theirs), updates whose creation entry is missing included
MaxLogs == 3
MaxTime == 3

LogRids == {B32(IdLower0x), Keccak(JsonSeed("j1"))}

LogEntries ==
    {[tx |-> [fn |-> fn, rid |-> rid, contentHash |-> ZeroHash, uri |-> "u1",
              from |-> AcctAddress, nonce |-> 0],
      status |-> st, timestamp |-> ts, version |-> IF fn = "create" THEN 1 ELSE 2] :
        fn \in {"create", "update"}, rid \in LogRids, st \in {0, 1}, ts \in 1..MaxTime}

Histories == UNION {[1..n -> LogEntries] : n \in 0..MaxLogs}

InitList ==
    /\ req = [t \in Threads |-> Idle]
    /\ objects = <<>>
    /\ pool = {}
    /\ mined \in Histories
    /\ chain = <<>>
    /\ started = 0

NextList == \E t \in Threads : List(t) \/ ListUpdated(t) \/ Respond(t)

SpecList == InitList /\ [][NextList]_vars

\* ------------------------------------------------------------------ claims
Writers == {t \in Threads : req[t].kind \in {"create", "update"}}

\* the receipt a request waited for
ReceiptOf(r) == mined[Val(r.tx).nonce + 1]

\* update transactions on rid that the contract ran to completion
SucceededUpdates(rid) ==
    {i \in 1..Len(mined) :
        mined[i].tx.fn = "update" /\ mined[i].tx.rid = rid /\ mined[i].status = 1}

\* C1: a record's on-chain version is 1 plus the number of update transactions
\* that succeeded for it (1 right after its creation), in every state any
\* interleaving of requests reaches.
C1_VersionCountsUpdates ==
    \A rid \in DOMAIN chain : chain[rid].version = 1 + Cardinality(SucceededUpdates(rid))

\* a record that two updates have succeeded on
C1_Witness == \E rid \in DOMAIN chain : Cardinality(SucceededUpdates(rid)) = 2

\* what GET /api/metadata/{recordId} answers in the current state
ReadNow(idHex) == GetOne(NewRequest("read", Some(idHex), None, None), chain)

\* C2 (as claimed): when a create has returned {txHash, recordId, uri}, a read of
\* recordId answers version 1, owner = updatedBy = the account, the returned uri
\* and the digest of json_text (the zero hash for a uri-only create).
C2_CreateThenRead ==
    \A t \in Threads :
        (req[t].kind = "create" /\ req[t].pc = "done" /\ req[t].status = 200) =>
            LET rd == ReadNow(Val(req[t].body).recordId)
            IN  /\ rd.status = 200
                /\ Val(rd.body).version = 1
                /\ Val(rd.body).owner = AcctAddress
                /\ Val(rd.body).updatedBy = AcctAddress
                /\ Val(rd.body).uri = Val(req[t].body).uri
                /\ Val(rd.body).contentHash =
                       HashToHex(IF Truthy(req[t].json_text)
                                 THEN Sha256Hex(Val(req[t].json_text)) ELSE ZeroHash)

\* C3 (as claimed): a request whose transaction the contract reverted ends as a
\* failure (5xx), never with the success body.
C3_RevertIsFailure ==
    \A t \in Writers :
        (req[t].pc = "done" /\ req[t].sent /\ ReceiptOf(req[t]).status = 0) =>
            req[t].status >= 500 /\ IsNone(req[t].body)

\* C4 (as claimed): with requests processed one at a time, no path of the object
\* store is written more than once.
C4_WriteOnce == \A p \in DOMAIN objects : objects[p].writes <= 1

\* C5 (as claimed): two requests in flight never hold transactions built with
\* the same nonce, and the node rejects no request's transaction.
C5_NonceSerialized ==
    /\ \A t, u \in Writers :
          (t # u /\ ~IsNone(req[t].tx) /\ ~IsNone(req[u].tx)) =>
              Val(req[t].tx).nonce # Val(req[u].tx).nonce
    /\ \A t \in Writers :
          ~(req[t].pc = "done" /\ ~IsNone(req[t].tx) /\ ~req[t].sent)

\* C6 (as claimed): two requests in flight never write the same path.
C6_NoWriteCollision ==
    \A t, u \in Writers :
        (t # u /\ req[t].wrote /\ req[u].wrote) =>
            TargetPath(req[t].rid_hex, req[t].ver) # TargetPath(req[u].rid_hex, req[u].ver)

\* C7: a request whose object write failed ends with a 500 and has built and
\* submitted no transaction; a request with json_text that has a transaction
\* wrote its object first.
C7_FailedWriteNoSubmit ==
    \A t \in Writers :
        /\ req[t].wfail =>
              /\ req[t].pc = "done" /\ req[t].status = 500
              /\ IsNone(req[t].tx) /\ ~req[t].sent
        /\ (Truthy(req[t].json_text) /\ ~IsNone(req[t].tx)) => req[t].wrote

\* a create or update with json_text whose write raised
C7_Witness == \E t \in Writers : req[t].wfail /\ req[t].pc = "done"

Neither(r) == ~Truthy(r.json_text) /\ ~Truthy(r.uri)

NoEffect(r) == ~r.wrote /\ ~r.wfail /\ IsNone(r.tx) /\ ~r.sent

\* C8 (as claimed): a create or update with neither json_text nor uri ends with
\* 400, nothing written, nothing submitted.
C8_NeitherIs400 ==
    \A t \in Writers :
        Neither(req[t]) => req[t].pc = "done" /\ req[t].status = 400 /\ NoEffect(req[t])

\* C8 (amended): such a request writes nothing and submits nothing; it ends with
\* 400, except that an update of a well-formed id with no record ends with 404.
C8_NeitherRejected ==
    \A t \in Writers :
        Neither(req[t]) =>
            /\ req[t].pc = "done" /\ NoEffect(req[t])
            /\ req[t].status =
                  IF req[t].kind = "update" /\ ~IsNone(req[t].it) /\ NotFound(Val(req[t].it))
                  THEN 404 ELSE 400

\* an update with neither, of a record that exists: the 400 of line 242
C8_Witness ==
    \E t \in Writers :
        /\ req[t].kind = "update" /\ Neither(req[t]) /\ req[t].status = 400
        /\ ~IsNone(req[t].it) /\ ~NotFound(Val(req[t].it))

Both(r) == Truthy(r.json_text) /\ Truthy(r.uri)

\* C9 (as claimed): a create or update given both json_text and uri ends with 400
\* and has no effect.
C9_BothIs400 ==
    \A t \in Writers :
        Both(req[t]) => req[t].pc = "done" /\ req[t].status = 400 /\ NoEffect(req[t])

\* C9 (amended): a request that writes or submits was given at least one of the
\* two; given json_text (alone or with uri) its transaction carries the digest of
\* json_text and the generated locator, the uri being ignored; given uri alone
\* it writes nothing and its transaction carries the zero hash and that uri.
C9_JsonTextWins ==
    \A t \in Writers :
        /\ (req[t].wrote \/ ~IsNone(req[t].tx)) => ~Neither(req[t])
        /\ ~IsNone(req[t].tx) =>
              IF Truthy(req[t].json_text)
              THEN /\ Val(req[t].tx).contentHash = Sha256Hex(Val(req[t].json_text))
                   /\ Val(req[t].tx).uri = Locator(req[t].rid_hex, req[t].ver)
                   /\ req[t].wrote
              ELSE /\ Val(req[t].tx).contentHash = ZeroHash
                   /\ Val(req[t].tx).uri = <<Val(req[t].uri)>>
                   /\ ~req[t].wrote

\* a request given both whose transaction went out
C9_Witness == \E t \in Writers : Both(req[t]) /\ req[t].sent /\ req[t].wrote

\* C10: a read or an update of a well-formed id that has no record ends with 404;
\* the update has written no file and built no transaction.
C10_AbsentIs404 ==
    \A t \in Threads :
        (/\ req[t].kind \in {"update", "read"}
         /\ B32Ok(Val(req[t].recordIdHex))
         /\ B32(Val(req[t].recordIdHex)) \notin DOMAIN chain) =>
            /\ req[t].pc = "done" /\ req[t].status = 404
            /\ IsNone(req[t].body) /\ NoEffect(req[t])

\* an update carrying json_text that met no record, while another id exists
C10_Witness ==
    \E t \in Threads :
        /\ req[t].kind = "update" /\ Truthy(req[t].json_text) /\ req[t].status = 404
        /\ DOMAIN chain # {}

\* what GET /api/metadata/{idHex} answers on contract storage c
ReadOf(c, idHex) == GetOne(NewRequest("read", Some(idHex), None, None), c)

\* C11: once a read of an id answers a record, a read of it after any further
\* step answers a record too, with the same recordId, owner and createdAt.
C11_RecordsStay ==
    [][\A idHex \in PathIds :
          LET before == ReadOf(chain, idHex)
              after == ReadOf(chain', idHex)
          IN  (chain' # chain /\ before.status = 200) =>
                  /\ after.status = 200
                  /\ Val(after.body).recordId = Val(before.body).recordId
                  /\ Val(after.body).owner = Val(before.body).owner
                  /\ Val(after.body).createdAt = Val(before.body).createdAt]_vars

\* a readable record after a create that reused its id and an update of it
C11_Witness ==
    \E i, j \in 1..Len(mined) :
        /\ mined[i].tx.fn = "create" /\ mined[i].status = 0
        /\ mined[j].tx.fn = "update" /\ mined[j].status = 1
        /\ mined[i].tx.rid = mined[j].tx.rid
        /\ ReadNow(IdLower0x).status = 200

\* threads whose list_metadata has returned
Listed == {t \in Threads : req[t].kind = "list" /\ req[t].pc = "done"}

\* the listing of t began after every creation so far
ListedAfterCreates(t) == req[t].created = Some(CreatedLogs(mined))

\* the included transactions that took effect on record rid
EventsOf(rid) == {i \in 1..Len(mined) : mined[i].status = 1 /\ mined[i].tx.rid = rid}
Creation(rid) == mined[CHOOSE i \in EventsOf(rid) : \A j \in EventsOf(rid) : i <= j]
LastEvent(rid) == mined[CHOOSE i \in EventsOf(rid) : \A j \in EventsOf(rid) : i >= j]

\* what a listing owes for record rid
ExpectedItem(rid) ==
    [recordId |-> BytesHex(rid), contentHash |-> HashHex(LastEvent(rid).tx.contentHash),
     uri |-> LastEvent(rid).tx.uri, version |-> LastEvent(rid).version,
     owner |-> Creation(rid).tx.from, updatedBy |-> LastEvent(rid).tx.from,
     updatedAt |-> LastEvent(rid).timestamp, createdAt |-> Creation(rid).timestamp]

\* C12: a listing made after N creates of distinct ids and M updates took
\* effect returns N items, one per record, each with the contentHash, uri,
\* version, updatedBy and updatedAt of the record's last update (or creation)
\* and the owner and createdAt of its creation.
C12_ListReflectsLatest ==
    \A t \in Listed :
        ListedAfterCreates(t) =>
            LET items == Val(req[t].body).items
            IN  /\ Len(items) = Cardinality(DOMAIN chain)
                /\ \A rid \in DOMAIN chain :
                       \E i \in 1..Len(items) : items[i] = ExpectedItem(rid)

\* a listing of two records, one of them updated
C12_Witness ==
    \E t \in Listed :
        /\ ListedAfterCreates(t)
        /\ Len(Val(req[t].body).items) = 2
        /\ \E i \in 1..2 : Val(req[t].body).items[i].version = 2

\* C13: whatever the two event logs hold, a listing is ordered newest first:
\* of two adjacent items the earlier one's updatedAt is not the smaller.
C13_NewestFirst ==
    \A t \in Listed :
        LET items == Val(req[t].body).items
        IN  \A i \in 1..(Len(items) - 1) : items[i].updatedAt >= items[i + 1].updatedAt

\* a listing of two records in which the record created first was updated
\* last, so that the order of the dict is not the order returned
C13_Witness ==
    \E t \in Listed :
        LET items == Val(req[t].body).items
        IN  /\ Len(items) = 2
            /\ items[1].updatedAt > items[2].updatedAt
            /\ "createdAt" \in DOMAIN items[1] /\ "createdAt" \in DOMAIN items[2]
            /\ items[1].createdAt < items[2].createdAt

\* the request of r names its record by a recordIdHex that _b32 refuses
Malformed(r) ==
    /\ r.kind \in {"create", "update", "read"}
    /\ ~IsNone(r.recordIdHex)
    /\ ~B32Ok(Val(r.recordIdHex))

\* C14: a create, read or update whose recordIdHex does not decode to
\* exactly 32 bytes has failed with 400, without a contract read, an object
\* written or a transaction.
C14_MalformedIdIs400 ==
    \A t \in Threads :
        Malformed(req[t]) =>
            /\ req[t].pc = "done" /\ req[t].status = 400
            /\ IsNone(req[t].it) /\ NoEffect(req[t])

\* the record's uri is a locator of the object store: the handlers send a
\* locator together with a digest and a caller's uri together with the zero hash
HasLocator(rec) == rec.contentHash # ZeroHash

\* the object store path a locator names
PathOf(uri) == Tail(uri)

\* C16: for every record on the chain whose uri is a locator of the object
\* store, the object exists and its SHA-256 is the record's contentHash.
C16_BlobMatchesHash ==
    \A rid \in DOMAIN chain :
        HasLocator(chain[rid]) =>
            /\ PathOf(chain[rid].uri) \in DOMAIN objects
            /\ Sha256Hex(objects[PathOf(chain[rid].uri)].data) = chain[rid].contentHash

\* the end of a locator of version ver
VersionSuffix(ver) == <<"/v">> \o DecStr(ver) \o <<".json">>

EndsWith(s, suffix) ==
    /\ Len(s) >= Len(suffix)
    /\ SubSeq(s, Len(s) - Len(suffix) + 1, Len(s)) = suffix

\* C17: the locator of every record on the chain ends in /v{k}.json with k
\* the record's version.
C17_LocatorNamesVersion ==
    \A rid \in DOMAIN chain :
        HasLocator(chain[rid]) => EndsWith(chain[rid].uri, VersionSuffix(chain[rid].version))

\* C18: the directory of an object is a function of the 32 bytes of the
\* recordId: every handler that resolved a path used the one spelling of its
\* recordId that create uses, whatever spelling the request came in.
C18_PathFromBytes ==
    \A t \in Writers :
        (req[t].wrote \/ req[t].pc = "write") => req[t].rid_hex = BytesHex(req[t].rid)

\* the fields on which a listing and a read are compared
Compared(x) ==
    [contentHash |-> x.contentHash, uri |-> x.uri, version |-> x.version,
     owner |-> x.owner, updatedBy |-> x.updatedBy, createdAt |-> x.createdAt,
     updatedAt |-> x.updatedAt]

\* C19: a listing of the present state has, for every record of the chain,
\* an item with the contentHash, uri, version, owner, updatedBy, createdAt and
\* updatedAt that a read of the record returns, and no item for an id whose
\* read is a 404.
C19_ListAgreesWithRead ==
    \A t \in Listed :
        ListedAfterCreates(t) =>
            LET items == Val(req[t].body).items
            IN  /\ \A rid \in DOMAIN chain :
                       \E i \in 1..Len(items) :
                           /\ items[i].recordId = BytesHex(rid)
                           /\ Compared(items[i]) = Compared(Val(ReadOf(chain, ToHex(rid)).body))
                /\ \A i \in 1..Len(items) :
                       ReadOf(chain, items[i].recordId).status = 200

====
